---- MODULE Spec2Model ----
(***************************************************************************)
(* A model of script.py: the RSS feed pipeline (process_all_feeds_for_user, *)
(* process_rss_feed, send_short_summary_dm), the reaction handler           *)
(* on_raw_reaction_add, the !feedback and !run commands, and the keyword    *)
(* filter check_relevance.                                                  *)
(*                                                                          *)
(* Text is a sequence of one-character strings, so that str.lower, str.split*)
(* and the substring test `kw in combined` are computed as Python computes  *)
(* them.  Coroutines are cut at their await points and loop heads: an       *)
(* action is the synchronous code of one task between two such points.      *)
(***************************************************************************)
EXTENDS Integers, Sequences, FiniteSets, TLC

VARIABLES
    interest,     \* contents of user.txt (USER_FILE, read-only)
    profile,      \* contents of user_profile.txt (USER_PROFILE_FILE)
    feeds,        \* what feedparser.parse returns for each line of RSS_FEED_SOURCES_FILE
    feedCounter,  \* _feed_counter
    folders,      \* the subfolders of Notes/
    notes,        \* the note files: path -> body
    msgMap,       \* message_article_map
    outbox,       \* every message the bot has sent; a message's id is its position
    run,          \* the run_now task: its position and its locals
    handlers,     \* the on_raw_reaction_add tasks that passed the two guards
    events,       \* number of inbound user events so far
    calls,        \* history: the process_rss_feed calls of the current run
    hist,         \* history: counters of what has happened
    q,            \* RelSpec only: the arguments of one check_relevance call
    ans           \* RelSpec only: what check_relevance returned for q

pipevars == <<interest, profile, feeds, feedCounter, folders, notes, msgMap,
              outbox, run, handlers, events, calls, hist>>
relvars == <<q, ans>>
vars == <<pipevars, relvars>>

-----------------------------------------------------------------------------
(* Text *)

UpperChars == <<"A","B","C","D","E","F","G","H","I","J","K","L","M",
                "N","O","P","Q","R","S","T","U","V","W","X","Y","Z">>
LowerChars == <<"a","b","c","d","e","f","g","h","i","j","k","l","m",
                "n","o","p","q","r","s","t","u","v","w","x","y","z">>
DigitChars == <<"0","1","2","3","4","5","6","7","8","9">>

\* str.split() with no argument splits on runs of whitespace
Whitespace == {" ", "\n", "\t"}

\* the lower-case letter of each upper-case letter
LowerOf ==
    [c \in {UpperChars[i] : i \in 1..26} |->
        LowerChars[CHOOSE i \in 1..26 : UpperChars[i] = c]]

LowerChar(c) == IF c \in DOMAIN LowerOf THEN LowerOf[c] ELSE c

\* str.lower()
LowerStr(s) == [i \in 1..Len(s) |-> LowerChar(s[i])]

\* mutant of Split: str.split(" "), which keeps the empty strings between and
\* around separators (and the empty string of an empty text)
RECURSIVE SplitOnSpaceAcc(_, _, _)
SplitOnSpaceAcc(s, i, start) ==
    IF i > Len(s)
    THEN {SubSeq(s, start, Len(s))}
    ELSE IF s[i] = " "
         THEN {SubSeq(s, start, i - 1)} \cup SplitOnSpaceAcc(s, i + 1, i + 1)
         ELSE SplitOnSpaceAcc(s, i + 1, start)

SplitOnSpace(s) == SplitOnSpaceAcc(s, 1, 1)

\* str.split(): runs of whitespace separate the tokens, and there is no empty
\* token (as a set: the code puts the tokens in a set).  A token starts after a
\* separator or at the start of s and goes up to the next separator or the end.
Split(s) ==
    LET n == Len(s)
        seps == {i \in 1..n : s[i] \in Whitespace}
        starts == {i \in (1..n) \ seps : i = 1 \/ (i - 1) \in seps}
        EndOf(a) == CHOOSE j \in a..n :
                        /\ j = n \/ (j + 1) \in seps
                        /\ \A k \in a..j : k \notin seps
    IN  {SubSeq(s, a, EndOf(a)) : a \in starts}

\* kw in s
IsSubstring(kw, s) ==
    \E i \in 0..(Len(s) - Len(kw)) : SubSeq(s, i + 1, i + Len(kw)) = kw

\* set(user_data.lower().split() + user_profile.lower().split())
Keywords(user_data, user_profile) ==
    Split(LowerStr(user_data)) \cup Split(LowerStr(user_profile))

\* f"{title.lower()} {text.lower()}"
Combined(title, text) == LowerStr(title) \o <<" ">> \o LowerStr(text)

\* the loop over the keywords: True at the first kw in combined, False when
\* there is none
AnyKeywordIn(keywords, combined) == \E kw \in keywords : IsSubstring(kw, combined)

check_relevance(title, text, user_data, user_profile) ==
    LET combined == Combined(title, text)
        keywords == Keywords(user_data, user_profile)
    IN  AnyKeywordIn(keywords, combined)

-----------------------------------------------------------------------------
(* Text Store and note naming *)

NL == <<"\n">>

\* mutant of append_text_file: the file opened with 'w', not 'a'
AppendOverwrite(file, content) == content \o NL

\* append_text_file: f.write(content + "\n") on a file opened for append
append_text_file(file, content) == file \o content \o NL

PositivePrefix == <<"P","o","s","i","t","i","v","e"," ","i","n","t","e","r","e","s","t",
                    " ","i","n",":"," ">>
NegativePrefix == <<"N","e","g","a","t","i","v","e"," ","i","n","t","e","r","e","s","t",
                    " ","i","n",":"," ">>
FeedbackPrefix == <<"C","u","s","t","o","m"," ","F","e","e","d","b","a","c","k",":"," ">>

\* f"Positive interest in: {topic}"
PositiveLine(topic) == PositivePrefix \o topic

\* f"Negative interest in: {topic}"
NegativeLine(topic) == NegativePrefix \o topic

\* f"Custom Feedback: {arg}"
FeedbackLine(arg) == FeedbackPrefix \o arg

\* mutant of _update_user_profile_positive: the negative line is appended
PositiveAsNegative(file, topic) == append_text_file(file, NegativeLine(topic))

_update_user_profile_positive(file, topic) == append_text_file(file, PositiveLine(topic))

_update_user_profile_negative(file, topic) == append_text_file(file, NegativeLine(topic))

\* the characters str.isalnum accepts
AlnumChars ==
    {UpperChars[i] : i \in 1..26} \cup {LowerChars[i] : i \in 1..26}
        \cup {DigitChars[i] : i \in 1..10}

IsAlnum(c) == c \in AlnumChars

RECURSIVE Strip(_)
Strip(s) ==
    IF s = <<>> THEN s
    ELSE IF Head(s) \in Whitespace THEN Strip(Tail(s))
    ELSE IF s[Len(s)] \in Whitespace THEN Strip(SubSeq(s, 1, Len(s) - 1))
    ELSE s

RECURSIVE DigitsOf(_)
DigitsOf(n) ==
    IF n < 10 THEN <<DigitChars[n + 1]>>
    ELSE Append(DigitsOf(n \div 10), DigitChars[(n % 10) + 1])

\* f"{n:04d}": at least four digits, zero-padded
Format04d(n) ==
    LET d == DigitsOf(n)
    IN  [i \in 1..(IF Len(d) < 4 THEN 4 - Len(d) ELSE 0) |-> "0"] \o d

FolderNameLimit == 60

UnknownFeed == <<"U","n","k","n","o","w","n","F","e","e","d">>

\* "".join(c for c in feed_title if c.isalnum() or c in "-_ ").strip().replace(" ", "_")
SafeTitle(feed_title) ==
    LET kept == SelectSeq(feed_title, LAMBDA c : IsAlnum(c) \/ c \in {"-", "_", " "})
        stripped == Strip(kept)
    IN  [i \in 1..Len(stripped) |-> IF stripped[i] = " " THEN "_" ELSE stripped[i]]

\* the folder name make_feed_subfolder builds for counter value n
FolderName(n, feed_title) ==
    LET safe == SafeTitle(feed_title)
        name == Format04d(n) \o <<"_">> \o (IF safe = <<>> THEN UnknownFeed ELSE safe)
    IN  SubSeq(name, 1, IF Len(name) < FolderNameLimit THEN Len(name) ELSE FolderNameLimit)

\* mutant of make_note_filename: every note of a feed gets the name of the first
FirstNoteFilename(index) == Format04d(1) \o <<".","t","x","t">>

\* make_note_filename
make_note_filename(index) == Format04d(index) \o <<".","t","x","t">>

\* note_body, as its four parts
NoteBody(title, link, short_sum, long_sum) ==
    [title |-> title, link |-> link, short |-> short_sum, long |-> long_sum]

\* open(path, 'w').write(body): creates or overwrites
WriteFile(fs, path, body) ==
    [p \in (DOMAIN fs) \cup {path} |-> IF p = path THEN body ELSE fs[p]]

-----------------------------------------------------------------------------
(* The feeds, the model-service answers and the user's inputs *)

NoTitle == <<"N","o"," ","T","i","t","l","e">>
NoSummary == <<"N","o"," ","S","u","m","m","a","r","y">>

\* entry.title if hasattr(entry, 'title') else "No Title", and the like
EntryTitle(e) == IF "title" \in e.has THEN e.title ELSE NoTitle
EntryContent(e) == IF "summary" \in e.has THEN e.summary ELSE NoSummary
EntryLink(e) == IF "link" \in e.has THEN e.link ELSE <<>>

\* getattr(feed.feed, "title", "UnknownFeed")
FeedTitle(f) == IF f.has_title THEN f.title ELSE UnknownFeed

Entry(t) == [has |-> {"title", "summary", "link"}, title |-> t,
             summary |-> <<"s">>, link |-> <<"u">>]
BareEntry == [has |-> {}, title |-> <<>>, summary |-> <<>>, link |-> <<>>]

FeedB == [bozo |-> FALSE, has_title |-> TRUE, title |-> <<"F","!"," ","b">>,
          entries |-> <<Entry(<<"b">>)>>]
FeedAB == [bozo |-> FALSE, has_title |-> TRUE, title |-> <<"F","!"," ","b">>,
           entries |-> <<Entry(<<"A"," ","b">>)>>]
FeedMixed == [bozo |-> FALSE, has_title |-> FALSE, title |-> <<>>,
              entries |-> <<Entry(<<"a">>), BareEntry>>]
\* a feed whose parse reports failure; feedparser still returns what it could read
FeedBozo == [bozo |-> TRUE, has_title |-> TRUE, title |-> <<"Z">>,
             entries |-> <<Entry(<<"a">>)>>]

\* the installations checked: the interest file and the feeds behind the feed list
Installations ==
    { [interest |-> <<>>, feeds |-> <<FeedB, FeedAB, FeedB>>],
      [interest |-> <<"a">>, feeds |-> <<FeedBozo, FeedMixed>>] }

\* what the model service may answer for an entry (already stripped): the short
\* and the long summary
Summaries == { [short |-> <<"x">>, long |-> <<"l">>],
               [short |-> <<"b">>, long |-> <<"m">>] }

FeedbackArgs == { <<"a">> }

ThumbsUp == "thumbs_up"
ThumbsDown == "thumbs_down"
RaisedHands == "raised_hands"
OtherEmoji == "smile"
Emojis == {ThumbsUp, ThumbsDown, RaisedHands, OtherEmoji}

BotUser == "bot"
HumanUser == "user"

ForeignMsg == 0      \* the id of a message the bot did not send

MaxEvents == 3       \* inbound user events (reactions, !feedback, !run) in a behaviour
MaxFeedCounter == 1  \* a run starts only while _feed_counter is at most this

NoQuery == [title |-> <<>>, text |-> <<>>, interest |-> <<>>, profile |-> <<>>]

-----------------------------------------------------------------------------
(* The state after start-up *)

IdleRun == [pc |-> "idle", fi |-> 0, ei |-> 0, user_data |-> <<>>, user_profile |-> <<>>,
            subfolder |-> <<>>, note_index |-> 0, short |-> <<>>, long |-> <<>>,
            sent |-> 0, counter0 |-> 0, first_msg |-> 1]

NoHist == [failures |-> 0, feedbacks |-> 0, ignored |-> {}]

Init ==
    /\ \E inst \in Installations : interest = inst.interest /\ feeds = inst.feeds
    /\ profile = <<>>
    /\ feedCounter = 1
    /\ folders = {}
    /\ notes = <<>>
    /\ msgMap = <<>>
    /\ outbox = <<>>
    /\ run = IdleRun
    /\ handlers = <<>>
    /\ events = 0
    /\ calls = <<>>
    /\ hist = NoHist
    /\ q = NoQuery
    /\ ans = {}

Msg(kind, title, body) == [kind |-> kind, title |-> title, body |-> body]

\* history: the record of the call under way, and the calls with it replaced.  A
\* record keeps the texts the call loaded and the keyword set check_relevance
\* builds from them, the same for every entry of the call.
LastCall == calls[Len(calls)]
SetLastCall(c) == [calls EXCEPT ![Len(calls)] = c]

-----------------------------------------------------------------------------
(* !run: run_now, process_all_feeds_for_user, process_rss_feed *)

\* run_now up to the first feed.  One run at a time: a second !run is taken only
\* when the first has ended.
UserRun(in_guild) ==
    /\ events < MaxEvents
    /\ run.pc \in {"idle", "done", "raised"}
    /\ feedCounter <= MaxFeedCounter
    /\ events' = events + 1
    /\ IF in_guild
       THEN /\ outbox' = Append(outbox, Msg("use_dm", <<>>, <<>>))
            /\ UNCHANGED <<run, calls>>
       ELSE /\ outbox' = Append(outbox, Msg("starting", <<>>, <<>>))
            /\ run' = [IdleRun EXCEPT !.pc = "feed", !.fi = 1,
                                       !.counter0 = feedCounter,
                                       !.first_msg = Len(outbox) + 1]
            /\ calls' = <<>>
    /\ UNCHANGED <<interest, profile, feeds, feedCounter, folders, notes, msgMap,
                   handlers, hist, relvars>>

\* mutant of FeedFailed: the bozo flag is not looked at
FeedNeverFailed(feed) == FALSE

\* if feed.bozo
FeedFailed(feed) == feed.bozo

\* mutant of LoadProfile: the profile text of the run's first feed is kept for the
\* later feeds of the run
LoadProfileCached(file) == IF calls = <<>> THEN file ELSE calls[1].user_profile

\* load_text_file(USER_PROFILE_FILE) at the start of process_rss_feed
LoadProfile(file) == file

\* the head of the for loop of process_all_feeds_for_user, and process_rss_feed up
\* to its first await
ProcessFeed ==
    /\ run.pc = "feed"
    /\ IF run.fi > Len(feeds)
       THEN /\ outbox' = Append(outbox, Msg("complete", <<>>, <<>>))
            /\ run' = [run EXCEPT !.pc = "done"]
            /\ UNCHANGED <<feedCounter, folders, calls>>
       ELSE LET feed == feeds[run.fi]
                folder == FolderName(feedCounter, FeedTitle(feed))
                user_profile == LoadProfile(profile)
                call == [fi |-> run.fi, n |-> feedCounter, status |-> "running",
                         user_data |-> interest,
                         user_profile |-> user_profile, folder |-> folder,
                         keywords |-> Keywords(interest, user_profile),
                         shorts |-> <<>>, noted |-> <<>>, dms |-> <<>>]
            IN  IF FeedFailed(feed)
                THEN /\ run' = [run EXCEPT !.fi = @ + 1]
                     /\ calls' = Append(calls, [call EXCEPT !.status = "bozo",
                                                            !.folder = <<>>])
                     /\ UNCHANGED <<feedCounter, folders, outbox>>
                ELSE /\ feedCounter' = feedCounter + 1
                     /\ folders' = folders \cup {folder}
                     /\ IF feed.entries = <<>>
                        THEN /\ run' = [run EXCEPT !.fi = @ + 1]
                             /\ calls' = Append(calls, [call EXCEPT !.status = "returned"])
                        ELSE /\ run' = [run EXCEPT !.pc = "summarize", !.ei = 1,
                                                   !.note_index = 1,
                                                   !.subfolder = folder,
                                                   !.user_data = interest,
                                                   !.user_profile = user_profile]
                             /\ calls' = Append(calls, call)
                     /\ UNCHANGED outbox
    /\ UNCHANGED <<interest, profile, feeds, notes, msgMap, handlers, events, hist,
                   relvars>>

CurEntry == feeds[run.fi].entries[run.ei]

NotePath(r) == <<r.subfolder, make_note_filename(r.note_index)>>

\* the end of the loop body: the note is written and the loop goes on to the next
\* entry, or process_rss_feed returns to the loop over the feeds
SaveNote(short_sum, long_sum) ==
    LET path == NotePath(run)
        last == run.ei = Len(feeds[run.fi].entries)
    IN  /\ notes' = WriteFile(notes, path,
                        NoteBody(EntryTitle(CurEntry), EntryLink(CurEntry),
                                 short_sum, long_sum))
        /\ run' = IF last
                  THEN [run EXCEPT !.pc = "feed", !.fi = @ + 1]
                  ELSE [run EXCEPT !.pc = "summarize", !.ei = @ + 1,
                                   !.note_index = @ + 1]

\* await summarize_with_ai raises: nothing in process_rss_feed,
\* process_all_feeds_for_user or run_now catches it
SummarizeRaises ==
    /\ run.pc = "summarize"
    /\ run' = [run EXCEPT !.pc = "raised"]
    /\ calls' = SetLastCall([LastCall EXCEPT !.status = "raised"])
    /\ hist' = [hist EXCEPT !.failures = @ + 1]
    /\ UNCHANGED <<interest, profile, feeds, feedCounter, folders, notes, msgMap,
                   outbox, handlers, events, relvars>>

\* mutant of SummarizeReturns: the note is written before the relevance check and
\* the delivery
SummarizeReturnsNoteFirst(short_sum, long_sum) ==
    /\ run.pc = "summarize"
    /\ IF check_relevance(EntryTitle(CurEntry), short_sum, run.user_data,
                          run.user_profile)
       THEN /\ notes' = WriteFile(notes, NotePath(run),
                            NoteBody(EntryTitle(CurEntry), EntryLink(CurEntry),
                                     short_sum, long_sum))
            /\ run' = [run EXCEPT !.pc = "send", !.short = short_sum,
                                  !.long = long_sum]
            /\ calls' = SetLastCall([LastCall EXCEPT !.shorts = Append(@, short_sum)])
       ELSE /\ SaveNote(short_sum, long_sum)
            /\ calls' = SetLastCall([LastCall EXCEPT !.shorts = Append(@, short_sum),
                                      !.noted = Append(@, NotePath(run)),
                                      !.status = IF run'.pc = "feed" THEN "returned"
                                                 ELSE @])
    /\ UNCHANGED <<interest, profile, feeds, feedCounter, folders, msgMap, outbox,
                   handlers, events, hist, relvars>>

\* await summarize_with_ai returns; check_relevance; an entry that is not relevant
\* goes straight to its note
SummarizeReturns(short_sum, long_sum) ==
    /\ run.pc = "summarize"
    /\ IF check_relevance(EntryTitle(CurEntry), short_sum, run.user_data,
                          run.user_profile)
       THEN /\ run' = [run EXCEPT !.pc = "send", !.short = short_sum,
                                  !.long = long_sum]
            /\ calls' = SetLastCall([LastCall EXCEPT !.shorts = Append(@, short_sum)])
            /\ UNCHANGED notes
       ELSE /\ SaveNote(short_sum, long_sum)
            /\ calls' = SetLastCall([LastCall EXCEPT !.shorts = Append(@, short_sum),
                                      !.noted = Append(@, NotePath(run)),
                                      !.status = IF run'.pc = "feed" THEN "returned"
                                                 ELSE @])
    /\ UNCHANGED <<interest, profile, feeds, feedCounter, folders, msgMap, outbox,
                   handlers, events, hist, relvars>>

\* send_short_summary_dm: user.send is under way and the chat platform has
\* created the message, which the user can now see and react to
DmCreated ==
    /\ run.pc = "send"
    /\ outbox' = Append(outbox, Msg("dm", EntryTitle(CurEntry), run.short))
    /\ run' = [run EXCEPT !.pc = "sendret", !.sent = Len(outbox) + 1]
    /\ calls' = SetLastCall([LastCall EXCEPT !.dms = Append(@, run.ei)])
    /\ UNCHANGED <<interest, profile, feeds, feedCounter, folders, notes, msgMap,
                   handlers, events, hist, relvars>>

\* mutant of StoreArticleInfo: the record is not stored when the send returns
StoreNothing(map, id, title, short_summary, long_summary) == map

\* message_article_map[sent_msg.id] = {...}
StoreArticleInfo(map, id, title, short_summary, long_summary) ==
    [m \in (DOMAIN map) \cup {id} |->
        IF m = id
        THEN [entry_title |-> title, short_summary |-> short_summary,
              long_summary |-> long_summary]
        ELSE map[m]]

\* await user.send returns; the record is stored; the first add_reaction is awaited
SendReturns ==
    /\ run.pc = "sendret"
    /\ msgMap' = StoreArticleInfo(msgMap, run.sent, EntryTitle(CurEntry), run.short,
                                  run.long)
    /\ run' = [run EXCEPT !.pc = "react"]
    /\ UNCHANGED <<interest, profile, feeds, feedCounter, folders, notes, outbox,
                   handlers, events, calls, hist, relvars>>

-----------------------------------------------------------------------------
(* on_raw_reaction_add *)

\* mutant of Ignored: the bot's own reactions are not filtered out
IgnoredUntrackedOnly(user_id, msg_id) == msg_id \notin DOMAIN msgMap

\* the two early returns of on_raw_reaction_add
Ignored(user_id, msg_id) ==
    \/ user_id = BotUser
    \/ msg_id \notin DOMAIN msgMap

\* on_raw_reaction_add up to await bot.fetch_channel: the tasks in flight after
\* the event
Dispatch(tasks, user_id, msg_id, emoji) ==
    IF Ignored(user_id, msg_id)
    THEN tasks
    ELSE Append(tasks, [user |-> user_id, msg |-> msg_id, emoji |-> emoji,
                        info |-> msgMap[msg_id], pc |-> "fetch", done_at |-> 0])

\* the three awaits of sent_msg.add_reaction return, one after the other, and the
\* reaction events of the bot's own reactions are dispatched; then the loop body
\* goes on to the note.  (No other task reads or writes anything between them
\* that this task uses, so the three steps are taken as one.)
AddReactions ==
    /\ run.pc = "react"
    /\ handlers' = Dispatch(Dispatch(Dispatch(handlers, BotUser, run.sent, ThumbsUp),
                                      BotUser, run.sent, ThumbsDown),
                             BotUser, run.sent, RaisedHands)
    /\ hist' = [hist EXCEPT !.ignored =
                    IF handlers' = handlers THEN @ \cup {"bot"} ELSE @]
    /\ SaveNote(run.short, run.long)
    /\ calls' = SetLastCall([LastCall EXCEPT !.noted = Append(@, NotePath(run)),
                              !.status = IF run'.pc = "feed" THEN "returned" ELSE @])
    /\ UNCHANGED <<interest, profile, feeds, feedCounter, folders, msgMap, outbox,
                   events, relvars>>

\* history: what a message id is to the bot when a reaction to it arrives
TargetKind(msg_id) ==
    IF msg_id = ForeignMsg THEN "foreign"
    ELSE IF outbox[msg_id].kind # "dm" THEN "not_a_delivery"
    ELSE IF run.pc = "sendret" /\ run.sent = msg_id THEN "send_in_flight"
    ELSE "delivered"

\* the messages not in message_article_map a reaction is drawn on: one of each
\* kind (the handler returns at its second guard whichever of them it is and
\* whatever the emoji, so the others give the same step)
UntrackedTargets ==
    LET untracked == ({ForeignMsg} \cup (1..Len(outbox))) \ DOMAIN msgMap
    IN  {m \in untracked :
            \A k \in untracked : TargetKind(k) = TargetKind(m) => m <= k}

\* the user reacts to a message the bot sent, or to some other message
UserReact(msg_id, emoji) ==
    /\ events < MaxEvents
    /\ events' = events + 1
    /\ handlers' = Dispatch(handlers, HumanUser, msg_id, emoji)
    /\ hist' = [hist EXCEPT !.ignored =
                    IF handlers' = handlers THEN @ \cup {TargetKind(msg_id)} ELSE @]
    /\ UNCHANGED <<interest, profile, feeds, feedCounter, folders, notes, msgMap,
                   outbox, run, calls, relvars>>

\* await bot.fetch_channel returns; the branch on the emoji up to await channel.send
HandlerFetched(i) ==
    /\ handlers[i].pc = "fetch"
    /\ LET h == handlers[i]
       IN  CASE h.emoji = ThumbsUp ->
                  /\ outbox' = Append(outbox, Msg("detail", h.info.entry_title,
                                                  h.info.long_summary))
                  /\ handlers' = [handlers EXCEPT ![i].pc = "send"]
             [] h.emoji = ThumbsDown ->
                  /\ outbox' = Append(outbox, Msg("noted", <<>>, <<>>))
                  /\ handlers' = [handlers EXCEPT ![i].pc = "send"]
             [] h.emoji = RaisedHands ->
                  /\ outbox' = Append(outbox, Msg("please_type", <<>>, <<>>))
                  /\ handlers' = [handlers EXCEPT ![i].pc = "send"]
             [] OTHER ->
                  /\ handlers' = [handlers EXCEPT ![i].pc = "done",
                                                   ![i].done_at = feedCounter]
                  /\ UNCHANGED outbox
    /\ UNCHANGED <<interest, profile, feeds, feedCounter, folders, notes, msgMap,
                   run, events, calls, hist, relvars>>

\* await channel.send returns; the profile line is appended
HandlerSent(i) ==
    /\ handlers[i].pc = "send"
    /\ LET h == handlers[i]
       IN  profile' =
             CASE h.emoji = ThumbsUp ->
                    _update_user_profile_positive(profile, h.info.entry_title)
               [] h.emoji = ThumbsDown ->
                    _update_user_profile_negative(profile, h.info.entry_title)
               [] OTHER -> profile
    /\ handlers' = [handlers EXCEPT ![i].pc = "done", ![i].done_at = feedCounter]
    /\ UNCHANGED <<interest, feeds, feedCounter, folders, notes, msgMap, outbox,
                   run, events, calls, hist, relvars>>

-----------------------------------------------------------------------------
(* !feedback *)

\* custom_feedback
UserFeedback(arg) ==
    /\ events < MaxEvents
    /\ events' = events + 1
    /\ profile' = append_text_file(profile, FeedbackLine(arg))
    /\ outbox' = Append(outbox, Msg("feedback_noted", <<>>, <<>>))
    /\ hist' = [hist EXCEPT !.feedbacks = @ + 1]
    /\ UNCHANGED <<interest, feeds, feedCounter, folders, notes, msgMap, run,
                   handlers, calls, relvars>>

-----------------------------------------------------------------------------

Next ==
    \/ \E g \in BOOLEAN : UserRun(g)
    \/ ProcessFeed
    \/ SummarizeRaises
    \/ \E s \in Summaries : SummarizeReturns(s.short, s.long)
    \/ DmCreated
    \/ SendReturns
    \/ AddReactions
    \/ \E m \in DOMAIN msgMap, e \in Emojis : UserReact(m, e)
    \/ \E m \in UntrackedTargets : UserReact(m, ThumbsUp)
    \/ \E i \in 1..Len(handlers) : HandlerFetched(i)
    \/ \E i \in 1..Len(handlers) : HandlerSent(i)
    \/ \E a \in FeedbackArgs : UserFeedback(a)

Spec == Init /\ [][Next]_vars

-----------------------------------------------------------------------------
(* RelSpec: check_relevance on every choice of four bounded texts *)

MaxText == 1        \* longest title, text and profile RelSpec draws
MaxInterest == 2    \* longest interest text RelSpec draws

RelAlphabet == {"a", "A", "b", " "}

StrsUpTo(n) == UNION {[1..k -> RelAlphabet] : k \in 0..n}

RelInit ==
    /\ q \in [title : StrsUpTo(MaxText), text : StrsUpTo(MaxText),
              interest : StrsUpTo(MaxInterest), profile : StrsUpTo(MaxText)]
    /\ ans = {}
    /\ interest = <<>>
    /\ profile = <<>>
    /\ feeds = <<>>
    /\ feedCounter = 1
    /\ folders = {}
    /\ notes = <<>>
    /\ msgMap = <<>>
    /\ outbox = <<>>
    /\ run = IdleRun
    /\ handlers = <<>>
    /\ events = 0
    /\ calls = <<>>
    /\ hist = NoHist

RelCall ==
    /\ ans = {}
    /\ ans' = {check_relevance(q.title, q.text, q.interest, q.profile)}
    /\ UNCHANGED <<q, pipevars>>

RelNext == RelCall

RelSpec == RelInit /\ [][RelNext]_vars

-----------------------------------------------------------------------------
(* Properties *)

Range(f) == {f[i] : i \in DOMAIN f}

RECURSIVE SumOver(_, _)
SumOver(f, S) ==
    IF S = {} THEN 0
    ELSE LET x == CHOOSE y \in S : TRUE IN f[x] + SumOver(f, S \ {x})

\* the entries of call c that check_relevance accepts, on the texts the call loaded
\* (by their keyword set, kept in the record) and the short summaries the model
\* service gave
RelevantEntries(c) ==
    {i \in 1..Len(c.shorts) :
        AnyKeywordIn(c.keywords,
                     Combined(EntryTitle(feeds[c.fi].entries[i]), c.shorts[i]))}

\* the name of the i-th note of a feed: four digits and ".txt"
NthNoteName(i) == Format04d(i) \o <<".","t","x","t">>

\* the direct messages of the current run
RunDms == {m \in run.first_msg..Len(outbox) : outbox[m].kind = "dm"}

\* what one returned call of process_rss_feed has done
CallComplete(c) ==
    LET entries == feeds[c.fi].entries
        N == Len(entries)
        relevant == RelevantEntries(c)
    IN  /\ Len(c.shorts) = N
        /\ Len(c.noted) = N
        /\ Cardinality(Range(c.noted)) = N
        /\ \A i \in 1..N :
              /\ c.noted[i] = <<c.folder, NthNoteName(i)>>
              /\ c.noted[i] \in DOMAIN notes
              /\ notes[c.noted[i]].title = EntryTitle(entries[i])
              /\ notes[c.noted[i]].link = EntryLink(entries[i])
              /\ notes[c.noted[i]].short = c.shorts[i]
        /\ Range(c.dms) = relevant
        /\ Len(c.dms) = Cardinality(relevant)
        /\ Len(c.dms) <= N

\* C1: a call of process_rss_feed on a feed that parses and has N entries, once it
\* has returned, has written exactly N note files, named 0001.txt .. N.txt in feed
\* order, one per entry, and has sent exactly as many direct messages as there are
\* entries that check_relevance accepts (on the entry's title, its short summary and
\* the interest and profile texts the call loaded: the loop decides every entry on
\* those texts, and the keyword set of the call's record is the one they give); the
\* direct messages in the outbox are exactly those of the calls.
C1_NotesAndDeliveries ==
    /\ run.pc \in {"summarize", "send", "sendret", "react"} =>
          /\ run.user_data = LastCall.user_data
          /\ run.user_profile = LastCall.user_profile
          /\ (run.pc = "summarize" /\ run.ei = 1) =>
                LastCall.keywords = Keywords(run.user_data, run.user_profile)
    /\ \A j \in 1..Len(calls) : calls[j].status = "returned" => CallComplete(calls[j])
    /\ Cardinality(RunDms) = SumOver([j \in 1..Len(calls) |-> Len(calls[j].dms)],
                                     1..Len(calls))

\* a returned call on a feed of two entries, one delivered and one only noted
C1_Witness ==
    \E j \in 1..Len(calls) :
        /\ calls[j].status = "returned"
        /\ Len(feeds[calls[j].fi].entries) = 2
        /\ Len(calls[j].noted) = 2
        /\ Len(calls[j].dms) = 1

\* C2: a failure of the summarizer for one entry does not abort the run: the
\* exception never leaves run_now, the run goes on with the next entry.
C2_FailureDoesNotAbort == hist.failures > 0 => run.pc # "raised"

NonBozo == SelectSeq(feeds, LAMBDA f : ~f.bozo)
NonBozoCalls == SelectSeq(calls, LAMBDA c : ~feeds[c.fi].bozo)

\* C3: when a run has completed, every feed of the list has been visited in file
\* order; a feed whose parse failed has no notes, no deliveries and no subfolder;
\* and the feeds that parsed have the results a list without the failing feeds
\* gives: the k-th of them has the k-th subfolder number of the run, its N notes
\* and its relevant deliveries, and every tracked message is one of their deliveries.
C3_FailedFeedSkipped ==
    run.pc = "done" =>
        LET parsed == NonBozo
            done == NonBozoCalls
        IN  /\ Len(calls) = Len(feeds)
            /\ \A j \in 1..Len(calls) :
                  /\ calls[j].fi = j
                  /\ feeds[j].bozo =>
                        /\ calls[j].noted = <<>>
                        /\ calls[j].dms = <<>>
                        /\ \A n \in 1..feedCounter :
                              FolderName(n, FeedTitle(feeds[j])) \notin folders
            /\ Len(done) = Len(parsed)
            /\ feedCounter = run.counter0 + Len(parsed)
            /\ \A k \in 1..Len(done) :
                  /\ done[k].status = "returned"
                  /\ done[k].folder =
                        FolderName(run.counter0 + k - 1, FeedTitle(parsed[k]))
                  /\ done[k].folder \in folders
                  /\ CallComplete(done[k])
            /\ Cardinality(RunDms) =
                  SumOver([k \in 1..Len(done) |-> Len(done[k].dms)], 1..Len(done))
            /\ RunDms \subseteq DOMAIN msgMap

\* the scenario of the specification: a completed run over one failing feed and
\* one feed of two entries, one relevant: two notes and one delivery in all
C3_Witness ==
    /\ run.pc = "done"
    /\ \E j \in 1..Len(feeds) : feeds[j].bozo
    /\ Cardinality(DOMAIN notes) = 2
    /\ Cardinality(RunDms) = 1
    /\ Cardinality(DOMAIN msgMap) = 1

\* the lines of a text file: the text before each newline, and what follows the
\* last newline if anything does
Lines(file) ==
    LET ends == {i \in 1..Len(file) : file[i] = "\n"}
        starts == {1} \cup {i + 1 : i \in ends}
        EndOf(a) == IF \E i \in ends : i >= a
                    THEN (CHOOSE i \in ends : i >= a /\ \A k \in ends : k >= a => i <= k) - 1
                    ELSE Len(file)
    IN  {<<a, SubSeq(file, a, EndOf(a))>> : a \in {b \in starts : b <= Len(file)}}

\* how many of the lines are the given one
CountIn(lines, line) == Cardinality({l \in lines : l[2] = line})

CountLines(file, line) == CountIn(Lines(file), line)

\* the handler tasks on a thumbs-up that have reached one of the positions pcs
UpTasks(pcs) ==
    {i \in 1..Len(handlers) : handlers[i].emoji = ThumbsUp /\ handlers[i].pc \in pcs}

\* the follow-up messages with the long summary
DetailMsgs == {k \in 1..Len(outbox) : outbox[k].kind = "detail"}

\* C4: every thumbs-up of the user on a tracked message, the first or a repeat,
\* gives one follow-up message with the stored title and long summary of that
\* message (once its handler has sent) and one profile line "Positive interest in:
\* <title>" (once its handler has ended), so k of them give k follow-ups and k
\* lines; the record of the message stays in message_article_map unchanged.
C4_PositiveFeedback ==
    /\ \A i \in 1..Len(handlers) :
          /\ handlers[i].msg \in DOMAIN msgMap
          /\ msgMap[handlers[i].msg] = handlers[i].info
    /\ \A lines \in {Lines(profile)}, m \in DOMAIN msgMap :
          LET T == msgMap[m].entry_title
              L == msgMap[m].long_summary
          IN  /\ CountIn(lines, PositivePrefix \o T) =
                    Cardinality({i \in UpTasks({"done"}) :
                                    handlers[i].info.entry_title = T})
              /\ Cardinality({k \in DetailMsgs :
                                    outbox[k].title = T /\ outbox[k].body = L}) =
                    Cardinality({i \in UpTasks({"send", "done"}) :
                                    /\ handlers[i].info.entry_title = T
                                    /\ handlers[i].info.long_summary = L})
    /\ Cardinality(DetailMsgs) = Cardinality(UpTasks({"send", "done"}))

\* two thumbs-up on the same message have both been handled: two lines, two
\* follow-ups
C4_Witness ==
    \E m \in DOMAIN msgMap :
        /\ Cardinality({i \in UpTasks({"done"}) : handlers[i].msg = m}) = 2
        /\ CountLines(profile, PositivePrefix \o msgMap[m].entry_title) = 2
        /\ Cardinality(DetailMsgs) = 2

\* the ids of the direct messages whose send has returned
Delivered ==
    {m \in 1..Len(outbox) :
        outbox[m].kind = "dm" /\ ~(run.pc = "sendret" /\ run.sent = m)}

\* C5: a reaction of the bot itself, or on a message that is not in
\* message_article_map, starts nothing: every handler task is one of the user on a
\* tracked delivery; the messages sent in answer to reactions and the lines of the
\* profile are exactly those of these tasks (and of !feedback); and the map holds
\* exactly the deliveries whose send has returned.
C5_IgnoredReactions ==
    /\ \A i \in 1..Len(handlers) :
          /\ handlers[i].user = HumanUser
          /\ handlers[i].msg \in DOMAIN msgMap
    /\ Cardinality({k \in 1..Len(outbox) :
              outbox[k].kind \in {"detail", "noted", "please_type"}}) =
          Cardinality({i \in 1..Len(handlers) :
              /\ handlers[i].emoji \in {ThumbsUp, ThumbsDown, RaisedHands}
              /\ handlers[i].pc # "fetch"})
    /\ Cardinality(Lines(profile)) =
          hist.feedbacks +
          Cardinality({i \in 1..Len(handlers) :
              /\ handlers[i].emoji \in {ThumbsUp, ThumbsDown}
              /\ handlers[i].pc = "done"})
    /\ DOMAIN msgMap = Delivered

\* the bot's three reactions on a delivery, a user reaction on a message of
\* somebody else and one on an untracked message of the bot have all been ignored
C5_Witness ==
    /\ {"bot", "foreign", "not_a_delivery"} \subseteq hist.ignored
    /\ msgMap # <<>>
    /\ handlers = <<>>

\* the whitespace-delimited tokens of a text: its maximal runs of characters that
\* are not whitespace
Tokens(s) ==
    {SubSeq(s, p[1], p[2]) :
        p \in {r \in (1..Len(s)) \X (1..Len(s)) :
                /\ r[1] <= r[2]
                /\ \A k \in r[1]..r[2] : s[k] \notin Whitespace
                /\ r[1] = 1 \/ s[r[1] - 1] \in Whitespace
                /\ r[2] = Len(s) \/ s[r[2] + 1] \in Whitespace}}

\* some token of the interest or of the profile, lowercased, occurs in one of the
\* lowercased haystacks
SomeTokenIn(haystacks) ==
    \E t \in Tokens(q.interest) \cup Tokens(q.profile) :
        \E h \in haystacks : IsSubstring(LowerStr(t), h)

\* C6 as stated: check_relevance returns true iff some whitespace-delimited token of
\* interest or profile, lowercased, is a substring of the lowercased title+text.
C6_SubstringOfConcatenation ==
    ans # {} => ans = {SomeTokenIn({LowerStr(q.title) \o LowerStr(q.text)})}

\* C6, amended: check_relevance returns true iff some whitespace-delimited token of
\* interest or profile, lowercased, is a substring of the lowercased title or of the
\* lowercased text (the haystack joins the two with one space, so no token matches
\* across the join); it returns false when interest and profile are both empty.
C6_SubstringOfTitleOrText ==
    ans # {} =>
        /\ ans = {SomeTokenIn({LowerStr(q.title), LowerStr(q.text)})}
        /\ ans = {SomeTokenIn({LowerStr(q.title) \o <<" ">> \o LowerStr(q.text)})}
        /\ (q.interest = <<>> /\ q.profile = <<>>) => ans = {FALSE}

\* an upper-case token, set off by whitespace, has matched a lower-case title
C6_Witness ==
    /\ ans = {TRUE}
    /\ q.interest = <<" ", "A">>
    /\ q.title = <<"a">>
    /\ q.text = <<>>
    /\ q.profile = <<>>

\* some word of title T occurs in the text, case-insensitively
MentionsWordOf(T, text) ==
    \E w \in Tokens(T) : IsSubstring(LowerStr(w), LowerStr(text))

\* entry i of call j has been handed to send_short_summary_dm
EntryDelivered(j, i) ==
    \/ i \in Range(calls[j].dms)
    \/ j = Len(calls) /\ run.pc = "send" /\ run.ei = i

\* the entries of call j that the loop has decided on
Decided(j) == 1..Len(calls[j].shorts)

\* C7: once a thumbs-up on a tracked article titled T has been processed, every
\* feed whose processing starts afterwards has loaded a profile with the line of T
\* and delivers every entry whose title or short summary contains a word of T; and
\* every call decides all its entries on the profile text it loaded at its start.
C7_FeedbackMakesRelevant ==
    /\ \A i \in 1..Len(handlers), j \in 1..Len(calls) :
          LET h == handlers[i]
              c == calls[j]
              T == h.info.entry_title
          IN  (/\ h.emoji = ThumbsUp /\ h.pc = "done"
               /\ c.status # "bozo" /\ h.done_at <= c.n) =>
                  /\ CountLines(c.user_profile, PositivePrefix \o T) >= 1
                  /\ \A e \in Decided(j) :
                        (\/ MentionsWordOf(T, EntryTitle(feeds[c.fi].entries[e]))
                         \/ MentionsWordOf(T, c.shorts[e]))
                            => EntryDelivered(j, e)
    /\ \A j \in 1..Len(calls) :
          {e \in Decided(j) : EntryDelivered(j, e)} = RelevantEntries(calls[j])

\* with an empty interest file: an entry that an earlier feed of the run did not
\* deliver is delivered by a later feed, after a thumbs-up on an article whose title
\* has a word the entry contains
C7_Witness ==
    /\ interest = <<>>
    /\ \E i \in 1..Len(handlers), j0 \in 1..Len(calls), j \in 1..Len(calls) :
          LET h == handlers[i]
              title == EntryTitle(feeds[calls[j].fi].entries[1])
          IN  /\ h.emoji = ThumbsUp /\ h.pc = "done"
              /\ j0 < j
              /\ calls[j0].status = "returned" /\ calls[j0].dms = <<>>
              /\ EntryTitle(feeds[calls[j0].fi].entries[1]) = title
              /\ calls[j0].n < h.done_at /\ h.done_at <= calls[j].n
              /\ MentionsWordOf(h.info.entry_title, title)
              /\ 1 \in Range(calls[j].dms)

\* C8 as stated: at the moment an entry's direct message is sent, its note file
\* already exists.
C8_NoteBeforeDelivery ==
    run.pc \in {"sendret", "react"} => NotePath(run) \in DOMAIN notes

\* C8, amended: for each entry the relevance check and the delivery (the send, the
\* record, the affordances) come before the note: while an entry's direct message
\* is being sent and tracked its note file does not exist yet, and every relevant
\* entry that has its note has been delivered.
C8_DeliveryBeforeNote ==
    /\ run.pc \in {"send", "sendret", "react"} => NotePath(run) \notin DOMAIN notes
    /\ \A j \in 1..Len(calls) :
          LET relevant == RelevantEntries(calls[j])
          IN  /\ Len(calls[j].noted) <= Len(calls[j].shorts)
              /\ \A e \in 1..Len(calls[j].noted) :
                    e \in relevant => e \in Range(calls[j].dms)

\* an entry's message is sent, tracked and being given its affordances, and the
\* entry has no note yet
C8_Witness ==
    /\ run.pc = "react"
    /\ run.sent \in DOMAIN msgMap
    /\ NotePath(run) \notin DOMAIN notes

Articles ==
    ({EntryTitle(feeds[f].entries[e]) : <<f, e>> \in
        {r \in (1..Len(feeds)) \X (1..2) : r[2] <= Len(feeds[r[1]].entries)}}
     \cup {<<"C","u","s","t","o","m">>})
    \X ({x.short : x \in Summaries} \cup {<<>>})

\* the thumbs-down tasks among the tasks that have been processed
DownDone(tasks) ==
    {i \in 1..Len(tasks) : tasks[i].emoji = ThumbsDown /\ tasks[i].pc = "done"}

\* the articles check_relevance accepts on the given interest and profile texts
\* (the keyword set is built once for all the articles)
Accepted(user_data, user_profile) ==
    LET keywords == Keywords(user_data, user_profile)
    IN  {a \in Articles : AnyKeywordIn(keywords, Combined(a[1], a[2]))}

\* for every thumbs-down among the tasks that has been processed, on an article
\* titled T: every article containing a word of T is among the accepted
NegativeWordsAreKeywords(tasks, accepted) ==
    \A T \in {tasks[i].info.entry_title : i \in DownDone(tasks)} :
        \A a \in Articles :
            (MentionsWordOf(T, a[1]) \/ MentionsWordOf(T, a[2])) => a \in accepted

\* C10: no step takes an article out of what check_relevance accepts: a step that
\* changes the profile only adds to its end, and the accepted articles only grow;
\* and after a thumbs-down on an article titled T the words of T are keywords, so
\* that every article containing one of them is accepted.
C10_RelevanceMonotone ==
    [][ /\ interest' = interest
        /\ \/ profile' = profile /\ DownDone(handlers') = DownDone(handlers)
           \/ \E after \in {profile'}, tasks \in {handlers'} :
                 LET accepted == Accepted(interest, after)
                 IN  /\ Len(after) >= Len(profile)
                     /\ SubSeq(after, 1, Len(profile)) = profile
                     /\ Accepted(interest, profile) \subseteq accepted
                     /\ NegativeWordsAreKeywords(tasks, accepted) ]_vars

\* a thumbs-down on an article has been processed, and a later feed has delivered
\* an entry containing a word of its title that an earlier feed did not deliver
C10_Witness ==
    \E i \in 1..Len(handlers), j0 \in 1..Len(calls), j \in 1..Len(calls) :
        LET h == handlers[i]
            title == EntryTitle(feeds[calls[j].fi].entries[1])
        IN  /\ h.emoji = ThumbsDown /\ h.pc = "done"
            /\ j0 < j
            /\ calls[j0].status = "returned" /\ calls[j0].dms = <<>>
            /\ EntryTitle(feeds[calls[j0].fi].entries[1]) = title
            /\ h.done_at <= calls[j].n
            /\ MentionsWordOf(h.info.entry_title, title)
            /\ 1 \in Range(calls[j].dms)

====
